---- MODULE Spec2Model ----
(***************************************************************************)
(* unicode_cleanup.py: list one directory, and for every entry whose name  *)
(* ends in .yml/.yaml read it as UTF-8 text, apply the table of literal    *)
(* replacements with str.replace, and rewrite the file when the text       *)
(* changed.                                                                *)
(*                                                                         *)
(* A text (str) is a sequence of code points, a file is a sequence of      *)
(* bytes, a file name is a text.                                           *)
(***************************************************************************)
EXTENDS Integers, Sequences, FiniteSets, TLC

VARIABLES
    pc,                 \* position of the script
    dir,                \* what os.listdir(workflow_dir) returns, in its order
    files,              \* the file system: name -> bytes
    linesep,            \* os.linesep of the platform the script runs on
    listing,            \* the list the for statement iterates over
    i,                  \* index of `filename` in listing
    content,            \* the script's variable content
    original_content,   \* the script's variable original_content
    out,                \* the lines printed by this run
    opened_r,           \* names passed to open(filepath, 'r') in this run
    opened_w,           \* names passed to open(filepath, 'w') in this run
    err,                \* the uncaught exception that ended this run
    files0,             \* the file system when this run started
    runs                \* the earlier runs: their exception and output

vars == <<pc, dir, files, linesep, listing, i, content, original_content,
          out, opened_r, opened_w, err, files0, runs>>

\* Bounds of the model.
MaxRuns == 2
MaxOccur == 2

(***************************************************************************)
(* The replacement table, lines 6-57, pair by pair as the dict display     *)
(* writes it: <<key, value>>, both as code points.                         *)
(***************************************************************************)
unicode_replacements_display == <<
    <<<<226, 339, 8230>>, <<91, 79, 75, 93>>>>, \* line 7: [OK]
    <<<<226, 338>>, <<91, 69, 82, 82, 79, 82, 93>>>>, \* line 8: [ERROR]
    <<<<226, 353, 160>>, <<91, 87, 65, 82, 78, 73, 78, 71, 93>>>>, \* line 9: [WARNING]
    <<<<287, 376, 175>>, <<91, 84, 65, 82, 71, 69, 84, 93>>>>, \* line 10: [TARGET]
    <<<<287, 376, 8220, 352>>, <<91, 67, 72, 65, 82, 84, 93>>>>, \* line 11: [CHART]
    <<<<287, 376, 8220>>, <<91, 80, 73, 78, 93>>>>, \* line 12: [PIN]
    <<<<287, 376, 8221, 167>>, <<91, 67, 79, 78, 70, 73, 71, 93>>>>, \* line 13: [CONFIG]
    <<<<287, 376, 353, 8364>>, <<91, 68, 69, 80, 76, 79, 89, 93>>>>, \* line 14: [DEPLOY]
    <<<<287, 376, 8250, 161, 239, 184>>, <<91, 83, 72, 73, 69, 76, 68, 93>>>>, \* line 15: [SHIELD]
    <<<<287, 376, 8221>>, <<91, 83, 69, 65, 82, 67, 72, 93>>>>, \* line 16: [SEARCH]
    <<<<287, 376, 8220, 8249>>, <<91, 76, 73, 83, 84, 93>>>>, \* line 17: [LIST]
    <<<<287, 376, 8221>>, <<91, 76, 79, 67, 75, 93>>>>, \* line 18: [LOCK]
    <<<<287, 376, 8212, 239, 184>>, <<91, 66, 85, 73, 76, 68, 93>>>>, \* line 19: [BUILD]
    <<<<287, 376, 8220>>, <<91, 78, 79, 84, 69, 93>>>>, \* line 20: [NOTE]
    <<<<287, 376, 8240>>, <<91, 83, 85, 67, 67, 69, 83, 83, 93>>>>, \* line 21: [SUCCESS]
    <<<<287, 376, 8221, 8222>>, <<91, 82, 69, 70, 82, 69, 83, 72, 93>>>>, \* line 22: [REFRESH]
    <<<<287, 376, 8217, 190>>, <<91, 83, 65, 86, 69, 93>>>>, \* line 23: [SAVE]
    <<<<287, 376, 8212, 8218, 239, 184>>, <<91, 70, 73, 76, 69, 83, 93>>>>, \* line 24: [FILES]
    <<<<287, 376, 8220, 710>>, <<91, 71, 82, 65, 80, 72, 93>>>>, \* line 25: [GRAPH]
    <<<<287, 376, 338, 376>>, <<91, 83, 84, 65, 82, 93>>>>, \* line 26: [STAR]
    <<<<226, 173>>, <<91, 83, 84, 65, 82, 93>>>>, \* line 27: [STAR]
    <<<<287, 376, 8217, 161>>, <<91, 73, 68, 69, 65, 93>>>>, \* line 28: [IDEA]
    <<<<287, 376, 168>>, <<91, 65, 82, 84, 93>>>>, \* line 29: [ART]
    <<<<287, 376, 353, 168>>, <<91, 65, 76, 69, 82, 84, 93>>>>, \* line 30: [ALERT]
    <<<<287, 376, 8221, 172>>, <<91, 84, 69, 83, 84, 93>>>>, \* line 31: [TEST]
    <<<<287, 376, 170>>, <<91, 69, 86, 69, 78, 84, 93>>>>, \* line 32: [EVENT]
    <<<<287, 376, 8220, 166>>, <<91, 80, 65, 67, 75, 65, 71, 69, 93>>>>, \* line 33: [PACKAGE]
    <<<<287, 376, 183, 239, 184>>, <<91, 84, 65, 71, 93>>>>, \* line 34: [TAG]
    <<<<287, 376, 338>>, <<91, 71, 76, 79, 66, 65, 76, 93>>>>, \* line 35: [GLOBAL]
    <<<<287, 376, 8221, 8212>>, <<91, 76, 73, 78, 75, 93>>>>, \* line 36: [LINK]
    <<<<287, 376, 8220, 177>>, <<91, 77, 79, 66, 73, 76, 69, 93>>>>, \* line 37: [MOBILE]
    <<<<287, 376, 8217, 187>>, <<91, 67, 79, 77, 80, 85, 84, 69, 82, 93>>>>, \* line 38: [COMPUTER]
    <<<<226, 353, 161>>, <<91, 70, 65, 83, 84, 93>>>>, \* line 39: [FAST]
    <<<<287, 376, 173>>, <<91, 77, 65, 83, 75, 93>>>>, \* line 40: [MASK]
    <<<<287, 376, 178>>, <<91, 82, 65, 78, 68, 79, 77, 93>>>>, \* line 41: [RANDOM]
    <<<<287, 376, 8220, 162>>, <<91, 65, 78, 78, 79, 85, 78, 67, 69, 93>>>>, \* line 42: [ANNOUNCE]
    <<<<287, 376, 8220, 163>>, <<91, 66, 82, 79, 65, 68, 67, 65, 83, 84, 93>>>>, \* line 43: [BROADCAST]
    <<<<287, 376>>, <<91, 71, 73, 70, 84, 93>>>>, \* line 44: [GIFT]
    <<<<287, 376, 179>>, <<91, 71, 65, 77, 69, 93>>>>, \* line 45: [GAME]
    <<<<226, 353, 8482, 239, 184>>, <<91, 71, 69, 65, 82, 93>>>>, \* line 46: [GEAR]
    <<<<287, 376, 8217, 171>>, <<91, 83, 80, 65, 82, 75, 93>>>>, \* line 47: [SPARK]
    <<<<287, 376, 338, 710>>, <<91, 82, 65, 73, 78, 66, 79, 87, 93>>>>, \* line 48: [RAINBOW]
    <<<<287, 376>>, <<91, 70, 73, 78, 73, 83, 72, 93>>>>, \* line 49: [FINISH]
    <<<<58, 32, 34, 39, 34, 44, 10, 32, 32, 32, 32>>, <<39>>>>, \* line 51: quote
    <<<<34>>, <<34>>>>, \* line 53: dquote
    <<<<34>>, <<34>>>>, \* line 54: dquote
    <<<<226, 8364, 8221>>, <<45, 45>>>>, \* line 55: --
    <<<<226, 8364, 8220>>, <<45>>>> \* line 56: -
>>

\* A dict display inserts its pairs left to right: a key seen before keeps
\* its position and takes the later value.
DictDisplay(pairs) ==
    LET isFirst(k) == \A j \in 1..(k - 1) : pairs[j][1] # pairs[k][1]
        last(key) == CHOOSE k \in 1..Len(pairs) :
                        /\ pairs[k][1] = key
                        /\ \A j \in (k + 1)..Len(pairs) : pairs[j][1] # key
        first == SelectSeq([k \in 1..Len(pairs) |-> k], isFirst)
    IN [m \in 1..Len(first) |->
            <<pairs[first[m]][1], pairs[last(pairs[first[m]][1])][2]>>]

\* unicode_replacements.items(), in iteration order
unicode_replacements == DictDisplay(unicode_replacements_display)

\* the positions where old occurs in s
Find(s, old) ==
    {p \in 1..(Len(s) - Len(old) + 1) : SubSeq(s, p, p + Len(old) - 1) = old}

Least(S) == CHOOSE p \in S : \A q \in S : p <= q

\* str.replace(old, new) for a non-empty old: every non-overlapping
\* occurrence, found left to right; the inserted text is not rescanned.
RECURSIVE replace(_, _, _)
replace(s, old, new) ==
    IF Find(s, old) = {} THEN s
    ELSE LET p == Least(Find(s, old))
         IN SubSeq(s, 1, p - 1) \o new
                \o replace(SubSeq(s, p + Len(old), Len(s)), old, new)

\* the loop of lines 70-71 from the pair at index lo on: the pairs whose key
\* does not occur leave the text as it is, so the loop continues at the
\* first pair whose key occurs, and after it with the replaced text
RECURSIVE ReplaceFrom(_, _, _)
ReplaceFrom(text, items, lo) ==
    LET hits == {k \in lo..Len(items) : Find(text, items[k][1]) # {}}
    IN IF hits = {} THEN text
       ELSE ReplaceFrom(replace(text, items[Least(hits)][1],
                                items[Least(hits)][2]),
                        items, Least(hits) + 1)

ReplaceLoop(text, items) == ReplaceFrom(text, items, 1)

\* str.endswith(tuple of suffixes)
endswith(s, suffixes) ==
    \E x \in suffixes :
        Len(x) <= Len(s) /\ SubSeq(s, Len(s) - Len(x) + 1, Len(s)) = x

\* ('.yml', '.yaml')
Extensions == {<<46, 121, 109, 108>>, <<46, 121, 97, 109, 108>>}

\* variant: the suffixes compared without their dot
IsWorkflowFileNoDot(filename) ==
    endswith(filename, {<<121, 109, 108>>, <<121, 97, 109, 108>>})

\* the condition of line 60
IsWorkflowFile(filename) == endswith(filename, Extensions)

(***************************************************************************)
(* encoding='utf-8' of both open calls.                                    *)
(***************************************************************************)
Utf8EncodeChar(c) ==
    IF c < 128 THEN <<c>>
    ELSE IF c < 2048 THEN <<192 + (c \div 64), 128 + (c % 64)>>
    ELSE IF c < 65536
         THEN <<224 + (c \div 4096), 128 + ((c \div 64) % 64), 128 + (c % 64)>>
         ELSE <<240 + (c \div 262144), 128 + ((c \div 4096) % 64),
                128 + ((c \div 64) % 64), 128 + (c % 64)>>

\* the encodings of the characters, concatenated
RECURSIVE Utf8Encode(_)
Utf8Encode(text) ==
    IF text = <<>> THEN <<>>
    ELSE IF Len(text) = 1 THEN Utf8EncodeChar(text[1])
    ELSE LET mid == Len(text) \div 2
         IN Utf8Encode(SubSeq(text, 1, mid))
                \o Utf8Encode(SubSeq(text, mid + 1, Len(text)))

\* the length of the sequence a lead byte announces, 0 for a byte that
\* starts no sequence
Utf8Length(b1) ==
    IF b1 < 128 THEN 1
    ELSE IF b1 >= 194 /\ b1 <= 223 THEN 2
    ELSE IF b1 >= 224 /\ b1 <= 239 THEN 3
    ELSE IF b1 >= 240 /\ b1 <= 244 THEN 4
    ELSE 0

Utf8Continuation(x) == x >= 128 /\ x <= 191

\* strict decoding: [ok |-> FALSE] is UnicodeDecodeError.  The characters
\* start at the bytes that are no continuation bytes; the bytes decode when
\* every such byte starts a well-formed sequence and every continuation
\* byte belongs to the sequence of the nearest start before it.
Utf8Decode(b) ==
    LET isStart(p) == ~Utf8Continuation(b[p])
        starts == SelectSeq([p \in 1..Len(b) |-> p], isStart)
        n(p) == Utf8Length(b[p])
        wellFormed(p) ==
            /\ n(p) > 0
            /\ p + n(p) - 1 <= Len(b)
            /\ \A q \in (p + 1)..(p + n(p) - 1) : Utf8Continuation(b[q])
            /\ (b[p] = 224 => b[p + 1] >= 160)
            /\ (b[p] = 237 => b[p + 1] <= 159)
            /\ (b[p] = 240 => b[p + 1] >= 144)
            /\ (b[p] = 244 => b[p + 1] <= 143)
        covered(q) ==
            \E k \in 1..Len(starts) :
                starts[k] < q /\ q <= starts[k] + n(starts[k]) - 1
        cp(p) ==
            IF n(p) = 1 THEN b[p]
            ELSE IF n(p) = 2 THEN (b[p] - 192) * 64 + (b[p + 1] - 128)
            ELSE IF n(p) = 3
                 THEN (b[p] - 224) * 4096 + (b[p + 1] - 128) * 64
                      + (b[p + 2] - 128)
                 ELSE (b[p] - 240) * 262144 + (b[p + 1] - 128) * 4096
                      + (b[p + 2] - 128) * 64 + (b[p + 3] - 128)
        valid == /\ \A k \in 1..Len(starts) : wellFormed(starts[k])
                 /\ \A q \in 1..Len(b) : isStart(q) \/ covered(q)
    IN IF valid
       THEN [ok |-> TRUE, text |-> [k \in 1..Len(starts) |-> cp(starts[k])]]
       ELSE [ok |-> FALSE, text |-> <<>>]

\* text mode, newline=None, reading: \r\n and a lone \r become \n
UniversalNewlines(t) == replace(replace(t, <<13, 10>>, <<10>>), <<13>>, <<10>>)

\* f.read() of line 65: the text the script sees for these bytes
ReadText(bytes) == UniversalNewlines(Utf8Decode(bytes).text)

\* f.write(content) of line 75: \n becomes os.linesep, then UTF-8
WriteBytes(text, sep) == Utf8Encode(replace(text, <<10>>, sep))

\* variant: the file is rewritten whether or not the text changed
DiffersAlways(new, old) == TRUE

\* the comparison of line 73
Differs(new, old) == new # old

\* a printed line
Line(kind, name) == [kind |-> kind, name |-> name]

filename == listing[i]

(***************************************************************************)
(* The directories and files the script is run on.                         *)
(***************************************************************************)
AYml == <<97, 46, 121, 109, 108>>                       \* a.yml
BYaml == <<98, 46, 121, 97, 109, 108>>                  \* b.yaml
CTxt == <<99, 46, 116, 120, 116>>                       \* c.txt
XYml == <<120, 121, 109, 108>>                          \* xyml
DBak == <<100, 46, 121, 109, 108, 46, 98, 97, 107>>     \* d.yml.bak
Names == {AYml, BYaml, CTxt, XYml, DBak}

\* Deploy status: U+2705 done
CheckText == <<68, 101, 112, 108, 111, 121, 32, 115, 116, 97, 116, 117, 115,
               58, 32, 9989, 32, 100, 111, 110, 101>>
\* Deploy status: [OK] done
CheckTextOK == <<68, 101, 112, 108, 111, 121, 32, 115, 116, 97, 116, 117, 115,
                 58, 32, 91, 79, 75, 93, 32, 100, 111, 110, 101>>
\* Deploy status: U+00E2 U+0153 U+2026 done (the key of line 7 inside a text)
GarbledText == <<68, 101, 112, 108, 111, 121, 32, 115, 116, 97, 116, 117, 115,
                 58, 32, 226, 339, 8230, 32, 100, 111, 110, 101>>
\* plain text only
PlainText == <<112, 108, 97, 105, 110, 32, 116, 101, 120, 116, 32, 111, 110,
               108, 121>>
\* on:\r\n  push
CrLfText == <<111, 110, 58, 13, 10, 32, 32, 112, 117, 115, 104>>
\* name: "ci"
QuotedText == <<110, 97, 109, 101, 58, 32, 34, 99, 105, 34>>
\* U+2705 alone, and the key of line 7 alone
CheckMark == <<9989>>
GarbledMark == <<226, 339, 8230>>
\* a truncated UTF-8 sequence: not decodable
InvalidBytes == <<112, 226, 156>>
\* the key of lines 51-52 between `: "` and `",\n    `
NestedQuoteText == <<58, 32, 34, 58, 32, 34, 39, 34, 44, 10, 32, 32, 32, 32,
                     34, 44, 10, 32, 32, 32, 32>>

Keys == {unicode_replacements_display[k][1] :
            k \in 1..Len(unicode_replacements_display)}

\* n occurrences of key, each followed by the letter x
RECURSIVE Occurrences(_, _)
Occurrences(key, n) ==
    IF n = 0 THEN <<>> ELSE key \o <<120>> \o Occurrences(key, n - 1)

TableInputs ==
    Keys \cup {Occurrences(k, n) : k \in Keys, n \in 0..MaxOccur}
         \cup {NestedQuoteText, QuotedText}

Listings == { <<AYml, BYaml, CTxt>>,
              <<CTxt, BYaml, AYml>>,
              <<XYml, AYml, DBak, BYaml>> }

InitRun ==
    /\ pc = "start"
    /\ listing = <<>>
    /\ i = 1
    /\ content = <<>>
    /\ original_content = <<>>
    /\ out = <<>>
    /\ opened_r = {}
    /\ opened_w = {}
    /\ err = "none"
    /\ files0 = files
    /\ runs = <<>>

\* a directory of several files
Init ==
    /\ dir \in Listings
    /\ linesep \in {<<10>>, <<13, 10>>}
    /\ \E a \in {Utf8Encode(CheckText), Utf8Encode(GarbledText),
                 Utf8Encode(PlainText), InvalidBytes},
          b \in {Utf8Encode(PlainText), Utf8Encode(CrLfText),
                 Utf8Encode(QuotedText), Utf8Encode(GarbledText)},
          c \in {Utf8Encode(CheckMark), Utf8Encode(GarbledMark)} :
            files = [n \in Names |->
                        IF n = AYml THEN a
                        ELSE IF n = BYaml THEN b
                        ELSE IF n = CTxt THEN c
                        ELSE Utf8Encode(GarbledMark)]
    /\ InitRun

\* one workflow file holding a text built from the table's keys
InitTable ==
    /\ dir = <<CTxt, AYml>>
    /\ linesep \in {<<10>>, <<13, 10>>}
    /\ \E a \in {Utf8Encode(t) : t \in TableInputs} \cup {InvalidBytes} :
            files = [n \in Names |->
                        IF n = AYml THEN a ELSE Utf8Encode(GarbledMark)]
    /\ InitRun

(***************************************************************************)
(* The script, statement by statement.                                     *)
(***************************************************************************)
\* an exception nothing catches: the traceback ends the process
Uncaught(e) ==
    /\ pc' = "traceback"
    /\ err' = e

\* line 59: os.listdir returns the entries
ListDir ==
    /\ pc = "start"
    /\ pc' = "for"
    /\ listing' = dir
    /\ i' = 1
    /\ UNCHANGED <<dir, files, linesep, content, original_content, out,
                   opened_r, opened_w, err, files0, runs>>

\* variant: the exception of os.listdir is swallowed and the loop runs
ListDirFailContinues ==
    /\ pc = "start"
    /\ err' = "listdir"
    /\ pc' = "for"
    /\ listing' = dir
    /\ i' = 1
    /\ UNCHANGED <<dir, files, linesep, content, original_content, out,
                   opened_r, opened_w, files0, runs>>

\* line 59: os.listdir raises (no such directory, not listable)
ListDirFail ==
    /\ pc = "start"
    /\ Uncaught("listdir")
    /\ UNCHANGED <<dir, files, linesep, listing, i, content, original_content,
                   out, opened_r, opened_w, files0, runs>>

\* line 60, condition false: next entry
SkipEntry ==
    /\ pc = "for"
    /\ i <= Len(listing)
    /\ ~IsWorkflowFile(filename)
    /\ i' = i + 1
    /\ UNCHANGED <<pc, dir, files, linesep, listing, content, original_content,
                   out, opened_r, opened_w, err, files0, runs>>

\* lines 60-62
BeginFile ==
    /\ pc = "for"
    /\ i <= Len(listing)
    /\ IsWorkflowFile(filename)
    /\ out' = Append(out, Line("Processing", filename))
    /\ pc' = "read"
    /\ UNCHANGED <<dir, files, linesep, listing, i, content, original_content,
                   opened_r, opened_w, err, files0, runs>>

\* lines 64-67
ReadFile ==
    /\ pc = "read"
    /\ Utf8Decode(files[filename]).ok
    /\ opened_r' = opened_r \cup {filename}
    /\ content' = ReadText(files[filename])
    /\ original_content' = ReadText(files[filename])
    /\ pc' = "replace"
    /\ UNCHANGED <<dir, files, linesep, listing, i, out, opened_w, err,
                   files0, runs>>

\* line 64: open raises OSError
ReadOSError ==
    /\ pc = "read"
    /\ opened_r' = opened_r \cup {filename}
    /\ Uncaught("open_r")
    /\ UNCHANGED <<dir, files, linesep, listing, i, content, original_content,
                   out, opened_w, files0, runs>>

\* line 65: read raises UnicodeDecodeError
ReadDecodeError ==
    /\ pc = "read"
    /\ ~Utf8Decode(files[filename]).ok
    /\ opened_r' = opened_r \cup {filename}
    /\ Uncaught("decode")
    /\ UNCHANGED <<dir, files, linesep, listing, i, content, original_content,
                   out, opened_w, files0, runs>>

\* lines 70-71
ReplaceAll ==
    /\ pc = "replace"
    /\ content' = ReplaceLoop(content, unicode_replacements)
    /\ pc' = "compare"
    /\ UNCHANGED <<dir, files, linesep, listing, i, original_content, out,
                   opened_r, opened_w, err, files0, runs>>

\* lines 73-76
WriteFile ==
    /\ pc = "compare"
    /\ Differs(content, original_content)
    /\ opened_w' = opened_w \cup {filename}
    /\ files' = [files EXCEPT ![filename] = WriteBytes(content, linesep)]
    /\ out' = Append(out, Line("Updated", filename))
    /\ i' = i + 1
    /\ pc' = "for"
    /\ UNCHANGED <<dir, linesep, listing, content, original_content, opened_r,
                   err, files0, runs>>

\* lines 74-75 raise OSError: at open (file as it was) or after open
\* truncated it
WriteOSError ==
    /\ pc = "compare"
    /\ Differs(content, original_content)
    /\ opened_w' = opened_w \cup {filename}
    /\ \E truncated \in BOOLEAN :
          files' = IF truncated THEN [files EXCEPT ![filename] = <<>>]
                   ELSE files
    /\ Uncaught("open_w")
    /\ UNCHANGED <<dir, linesep, listing, i, content, original_content, out,
                   opened_r, files0, runs>>

\* lines 77-78
NoChange ==
    /\ pc = "compare"
    /\ ~Differs(content, original_content)
    /\ out' = Append(out, Line("NoChange", filename))
    /\ i' = i + 1
    /\ pc' = "for"
    /\ UNCHANGED <<dir, files, linesep, listing, content, original_content,
                   opened_r, opened_w, err, files0, runs>>

\* line 80
Complete ==
    /\ pc = "for"
    /\ i > Len(listing)
    /\ out' = Append(out, Line("Completed", <<>>))
    /\ pc' = "done"
    /\ UNCHANGED <<dir, files, linesep, listing, i, content, original_content,
                   opened_r, opened_w, err, files0, runs>>

\* the script is started again on the same directory
Rerun ==
    /\ pc \in {"done", "traceback"}
    /\ Len(runs) + 1 < MaxRuns
    /\ runs' = Append(runs, [err |-> err, out |-> out])
    /\ pc' = "start"
    /\ listing' = <<>>
    /\ i' = 1
    /\ content' = <<>>
    /\ original_content' = <<>>
    /\ out' = <<>>
    /\ opened_r' = {}
    /\ opened_w' = {}
    /\ err' = "none"
    /\ files0' = files
    /\ UNCHANGED <<dir, files, linesep>>

Next ==
    \/ ListDir
    \/ ListDirFail
    \/ SkipEntry
    \/ BeginFile
    \/ ReadFile
    \/ ReadOSError
    \/ ReadDecodeError
    \/ ReplaceAll
    \/ WriteFile
    \/ WriteOSError
    \/ NoChange
    \/ Complete
    \/ Rerun

Spec == Init /\ [][Next]_vars
SpecTable == InitTable /\ [][Next]_vars

(***************************************************************************)
(* Vocabulary of the properties.                                           *)
(***************************************************************************)
Display == unicode_replacements_display

\* the number of non-overlapping occurrences of sub in s, left to right
RECURSIVE Count(_, _)
Count(s, sub) ==
    IF Find(s, sub) = {} THEN 0
    ELSE 1 + Count(SubSeq(s, Least(Find(s, sub)) + Len(sub), Len(s)), sub)

Printed(line) == \E k \in 1..Len(out) : out[k] = line

Listed(n) == \E k \in 1..Len(listing) : listing[k] = n

\* the first run has printed its completion line
FirstRunDone == pc = "done" /\ runs = <<>>

\* a text holding no key of the table
NoSource(text) == \A key \in Keys : Find(text, key) = {}

\* a file that was decodable text without any key when this run started
CleanFile(n) ==
    /\ Utf8Decode(files0[n]).ok
    /\ \A text \in {ReadText(files0[n])} : NoSource(text)

Reverse(s) == [k \in 1..Len(s) |-> s[Len(s) + 1 - k]]

WorkflowNames == {AYml, BYaml}
OtherNames == {CTxt, XYml, DBak}

(***************************************************************************)
(* C1. Completeness: for every pair written in the table, a workflow file  *)
(* whose whole content is that pair's key holds, once the run is done,     *)
(* exactly that pair's value, and the key occurs in it no more.            *)
(***************************************************************************)
C1_Completeness ==
    \A k \in 1..Len(Display) :
        (/\ FirstRunDone
         /\ AYml \in opened_r
         /\ files0[AYml] = Utf8Encode(Display[k][1]))
        => /\ files[AYml] = Utf8Encode(Display[k][2])
           /\ \A text \in {ReadText(files[AYml])} :
                    Find(text, Display[k][1]) = {}

(***************************************************************************)
(* C2. A failure on one file (open, decode, write) does not abort the      *)
(* batch: the only exception that ends a run is the one of os.listdir.     *)
(***************************************************************************)
C2_FileErrorsDoNotAbort ==
    pc = "traceback" => err = "listdir"

(***************************************************************************)
(* C3. Idempotence: a run that follows a run which completed writes no     *)
(* file and prints no Updated line.                                        *)
(***************************************************************************)
C3_Idempotence ==
    (pc = "done" /\ runs # <<>> /\ runs[Len(runs)].err = "none")
    => /\ opened_w = {}
       /\ \A k \in 1..Len(out) : out[k].kind # "Updated"

(***************************************************************************)
(* C4. Scenario: a.yml holding "Deploy status: U+2705 done" in UTF-8       *)
(* holds "Deploy status: [OK] done" after the run and is printed as        *)
(* Updated.                                                                *)
(***************************************************************************)
C4_CheckMarkScenario ==
    (/\ FirstRunDone
     /\ AYml \in opened_r
     /\ files0[AYml] = Utf8Encode(CheckText))
    => /\ files[AYml] = Utf8Encode(CheckTextOK)
       /\ Printed(Line("Updated", AYml))

(***************************************************************************)
(* C5. The keys written in the table are pairwise different, none occurs   *)
(* inside another, and the result of the replacement loop is the same      *)
(* when the pairs are applied in the opposite order.                       *)
(***************************************************************************)
ReversedTable == Reverse(unicode_replacements)

TableKeysUnique ==
    \A j, k \in 1..Len(Display) : j # k => Display[j][1] # Display[k][1]

NoKeyInsideAnother ==
    \A j, k \in 1..Len(Display) :
        Display[j][1] # Display[k][1]
            => Find(Display[k][1], Display[j][1]) = {}

C5_OrderInsignificant ==
    /\ pc = "compare"
       => content = ReplaceLoop(original_content, ReversedTable)
    /\ pc = "done" => TableKeysUnique /\ NoKeyInsideAnother

(***************************************************************************)
(* C6. Non-interference: a workflow file that holds no key of the table is *)
(* never opened for writing, keeps its bytes, is never printed as Updated  *)
(* and, in a completed run, is printed as "No changes needed"; and a file  *)
(* is opened for writing only when the replacement loop changes the text   *)
(* read from it.                                                           *)
(***************************************************************************)
LeftAlone(n) ==
    /\ n \notin opened_w
    /\ files[n] = files0[n]
    /\ ~Printed(Line("Updated", n))
    /\ (pc = "done" /\ Listed(n)) => Printed(Line("NoChange", n))

C7_ExtensionFiltering ==
    \A n \in OtherNames :
        /\ n \notin (opened_r \cup opened_w)
        /\ files[n] = files0[n]
        /\ \A k \in 1..Len(out) : out[k].name # n

\* a completed run over a directory that lists c.txt, holding a key of the
\* table, next to workflow files that were rewritten
C7_Witness ==
    /\ pc = "done"
    /\ Listed(CTxt)
    /\ files[CTxt] = Utf8Encode(GarbledMark)
    /\ opened_w # {}

(***************************************************************************)
(* C8. Global replacement: for every pair written in the table and every   *)
(* N, a workflow file holding N occurrences of the pair's key, and no      *)
(* other key, holds after the run N occurrences of the pair's value and    *)
(* none of the key.                                                        *)
(***************************************************************************)
C8_GlobalReplacement ==
    \A k \in 1..Len(Display), n \in 0..MaxOccur :
        LET key == Display[k][1]
            text == Occurrences(key, n)
        IN (/\ FirstRunDone
            /\ AYml \in opened_r
            /\ files0[AYml] = Utf8Encode(text)
            /\ \A other \in Keys \ {key} : Find(text, other) = {})
           => \A result \in {ReadText(files[AYml])} :
                 /\ Count(result, Display[k][2]) = n
                 /\ Count(result, key) = 0

(***************************************************************************)
(* C9. When os.listdir raises, the run ends there: nothing was printed,    *)
(* no file was opened for reading or writing, no file changed.             *)
(***************************************************************************)
C9_DirectoryNotFoundFatal ==
    err = "listdir"
    => /\ pc = "traceback"
       /\ listing = <<>>
       /\ out = <<>>
       /\ opened_r = {}
       /\ opened_w = {}
       /\ files = files0

\* a run ended by the exception of os.listdir, after a run that rewrote files
C9_Witness ==
    /\ pc = "traceback"
    /\ err = "listdir"
    /\ runs # <<>>
    /\ \E n \in WorkflowNames : files[n] = Utf8Encode(CheckTextOK)

(***************************************************************************)
(* C10. Sequential reporting: when a run over a listed directory has       *)
(* ended, its output is, for each workflow file in listing order, the      *)
(* Processing line then one status line of that file, Updated exactly when *)
(* the file was written, and the completion line last.                     *)
(***************************************************************************)
C10_SequentialReporting ==
    (pc \in {"done", "traceback"} /\ err # "listdir")
    => LET m == SelectSeq(listing, IsWorkflowFile)
       IN /\ Len(out) = 2 * Len(m) + 1
          /\ \A k \in 1..Len(m) :
                /\ out[2 * k - 1] = Line("Processing", m[k])
                /\ out[2 * k].name = m[k]
                /\ out[2 * k].kind \in {"Updated", "NoChange", "Error"}
                /\ (out[2 * k].kind = "Updated" <=> m[k] \in opened_w)
          /\ out[Len(out)] = Line("Completed", <<>>)

====
